---- MODULE Spec2Model ----
(***************************************************************************)
(* Model of ratarmountcore/StenciledFile.py: RawStenciledFile (the stencil *)
(* table, _findStencil, seek, tell, read, close), the buffered wrappers    *)
(* StenciledFile and JoinedFile, and the underlying file objects they      *)
(* delegate to.  Lists are Python lists; index i of the source is i + 1    *)
(* here.  A stencil triple is <<fileObject, offset, size>>.                *)
(***************************************************************************)
EXTENDS Integers, Sequences, FiniteSets, TLC

VARIABLES
    args,        \* constructor arguments [kind, fileobj, stencils, fileStencils, file_objects]
    phase,       \* "new" before __init__, "open" after it returned, "failed" if it raised
    self,        \* the RawStenciledFile: [offset, offsets, sizes, fileObjects, cumsizes]
    srcPos,      \* file position of every underlying file object
    srcClosed,   \* the closed attribute of every underlying file object
    srcReadable, \* what readable() of every underlying file object returns
    last,        \* the last call on the raw file: what it was given, did and returned
    out,         \* bytes collected by a caller that reads in a loop
    buffer,      \* read-ahead of the io.BufferedReader around the raw file: [data, pos]
    views,       \* the RawStenciledFile each thread reads through
    pc,          \* where each thread is inside read
    lock,        \* the thread that holds the shared fileobjLock, NoThread if none
    local,       \* the local variables of each thread's read and what it returned
    mount        \* openMountSource on a file object: where it is, the file position, the probes begun

threadVars == <<views, pc, lock, local>>

vars == <<args, phase, self, srcPos, srcClosed, srcReadable, last, out, buffer,
          views, pc, lock, local, mount>>

----------------------------------------------------------------------------
\* Bounds of the inputs.

MaxStencils == 2     \* longest stencil list supplied to the constructor
MaxOff      == 2     \* largest stencil offset supplied
MaxLen      == 2     \* largest stencil size supplied
MaxRead     == 3     \* largest size passed to read
MaxSeek     == 2     \* largest |offset| passed to seek
MaxFiles    == 3     \* longest list of file objects joined
BufferSize  == 2     \* smallest buffer_size passed to JoinedFile

\* io.SEEK_SET, io.SEEK_CUR, io.SEEK_END
SEEK_SET == 0
SEEK_CUR == 1
SEEK_END == 2

\* None, where a file object is expected or nothing is returned
None == 0

----------------------------------------------------------------------------
\* The underlying file objects (not owned by the stenciled file).

Sources == {1, 2, 3}

\* Number of bytes each file object holds.
SrcSize == <<3, 0, 5>>

\* Content of file object f: pairwise distinct bytes.
SrcData(f) == [p \in 1..SrcSize[f] |-> 10 * f + (p - 1)]

Min(a, b) == IF a <= b THEN a ELSE b

\* fileObject.read(n) at file position pos: at most n bytes, everything up to the
\* end of the file for a negative n, nothing at or behind the end of the file.
SrcRead(f, pos, n) ==
    LET end == IF n < 0 THEN SrcSize[f] ELSE Min(pos + n, SrcSize[f])
    IN  IF pos >= end THEN <<>> ELSE SubSeq(SrcData(f), pos + 1, end)

\* fileObject.seek(0, io.SEEK_END): the size of the file object.
SrcSeekEnd(f) == SrcSize[f]

----------------------------------------------------------------------------
\* RawStenciledFile.__init__

Last(s) == s[Len(s)]

\* self.fileObjects, self.offsets, self.sizes = zip(*fileStencils)
\* respectively the list comprehensions over stencils with [fileobj] * len.
UnzipStencils(fileobj, stencils, fileStencils) ==
    IF fileStencils # <<>>
    THEN [fileObjects |-> [j \in 1..Len(fileStencils) |-> fileStencils[j][1]],
          offsets     |-> [j \in 1..Len(fileStencils) |-> fileStencils[j][2]],
          sizes       |-> [j \in 1..Len(fileStencils) |-> fileStencils[j][3]]]
    ELSE [fileObjects |-> [j \in 1..Len(stencils) |-> fileobj],
          offsets     |-> [j \in 1..Len(stencils) |-> stencils[j][1]],
          sizes       |-> [j \in 1..Len(stencils) |-> stencils[j][2]]]

\* Mutant: stencils of size 0 are kept.
KeepStencil_KeepsEmpty(size) == size >= 0

\* The test of the list comprehension that selects the stencils to keep.
KeepStencil(size) == size > 0

\* selectedStencils = [i for i, size in enumerate(self.sizes) if size > 0]
RECURSIVE selectedStencils(_, _)
selectedStencils(sizes, j) ==
    IF j > Len(sizes) THEN <<>>
    ELSE (IF KeepStencil(sizes[j]) THEN <<j>> ELSE <<>>) \o selectedStencils(sizes, j + 1)

\* self.cumsizes = [0]; for size in self.sizes: self.cumsizes.append(self.cumsizes[-1] + size)
RECURSIVE cumsizesOf(_, _, _)
cumsizesOf(sizes, j, acc) ==
    IF j > Len(sizes) THEN acc
    ELSE cumsizesOf(sizes, j + 1, Append(acc, Last(acc) + sizes[j]))

EmptySelf == [offset |-> 0, offsets |-> <<>>, sizes |-> <<>>, fileObjects |-> <<>>,
              cumsizes |-> <<0>>]

\* Mutant: the assertions are compiled out.
assertNonNegative_Off(value) == TRUE

\* assert offset >= 0; assert size >= 0
assertNonNegative(value) == value >= 0

\* for fileObject in self.fileObjects: if not fileObject.readable(): raise ...
\* The readable() calls made, in order, up to the first that returns False.
readableCalls(fileObjects, readable) ==
    LET bad   == {k \in 1..Len(fileObjects) : ~readable[fileObjects[k]]}
        asked == IF bad = {} THEN Len(fileObjects)
                 ELSE CHOOSE k \in bad : \A j \in bad : k <= j
    IN  [k \in 1..asked |-> [f |-> fileObjects[k], op |-> "readable", arg |-> 0]]

\* The constructor: the error it raises ("" if none), the object it builds and
\* the calls it makes on file objects.
RawInit(fileobj, stencils, fileStencils, readable) ==
    IF fileStencils # <<>> /\ (stencils # <<>> \/ fileobj # None)
    THEN [raised |-> "ValueError", self |-> EmptySelf, calls |-> <<>>]
    ELSE IF fileStencils = <<>> /\ stencils # <<>> /\ fileobj = None
    THEN [raised |-> "ValueError", self |-> EmptySelf, calls |-> <<>>]
    ELSE
    LET u   == UnzipStencils(fileobj, stencils, fileStencils)
        sel == selectedStencils(u.sizes, 1)
        offsets     == [k \in 1..Len(sel) |-> u.offsets[sel[k]]]
        sizes       == [k \in 1..Len(sel) |-> u.sizes[sel[k]]]
        fileObjects == [k \in 1..Len(sel) |-> u.fileObjects[sel[k]]]
    IN  IF \E j \in 1..Len(u.offsets) : ~assertNonNegative(u.offsets[j])
        THEN [raised |-> "AssertionError", self |-> EmptySelf, calls |-> <<>>]
        ELSE IF \E j \in 1..Len(u.sizes) : ~assertNonNegative(u.sizes[j])
        THEN [raised |-> "AssertionError", self |-> EmptySelf, calls |-> <<>>]
        ELSE IF \E k \in 1..Len(fileObjects) : ~readable[fileObjects[k]]
        THEN [raised |-> "ValueError", self |-> EmptySelf,
              calls |-> readableCalls(fileObjects, readable)]
        ELSE [raised |-> "",
              self   |-> [offset      |-> 0,
                          offsets     |-> offsets,
                          sizes       |-> sizes,
                          fileObjects |-> fileObjects,
                          cumsizes    |-> cumsizesOf(sizes, 1, <<0>>)],
              calls  |-> readableCalls(fileObjects, readable)]

----------------------------------------------------------------------------
\* RawStenciledFile._findStencil

\* Mutant: bisect_right, which steps over entries equal to x.
RECURSIVE bisect_left_AsRight(_, _, _, _)
bisect_left_AsRight(a, x, lo, hi) ==
    IF lo < hi
    THEN LET mid == (lo + hi) \div 2
         IN  IF a[mid + 1] <= x THEN bisect_left_AsRight(a, x, mid + 1, hi)
                                ELSE bisect_left_AsRight(a, x, lo, mid)
    ELSE lo

\* bisect.bisect_left(a, x, lo, hi): lo and hi are 0-based indexes into a.
RECURSIVE bisect_left(_, _, _, _)
bisect_left(a, x, lo, hi) ==
    IF lo < hi
    THEN LET mid == (lo + hi) \div 2
         IN  IF a[mid + 1] < x THEN bisect_left(a, x, mid + 1, hi)
                               ELSE bisect_left(a, x, lo, mid)
    ELSE lo

\* Mutant: the index of the stencil after the one that holds the offset.
findStencil_Next(cumsizes, offset) == bisect_left(cumsizes, offset + 1, 0, Len(cumsizes))

\* i = bisect.bisect_left(self.cumsizes, offset + 1) - 1 (a 0-based stencil index)
findStencil(cumsizes, offset) == bisect_left(cumsizes, offset + 1, 0, Len(cumsizes)) - 1

----------------------------------------------------------------------------
\* RawStenciledFile.seek, tell, close, read

\* What a call did: the exception it raised ("" if none), what it returned, the
\* cursor and the file positions it left, whether it entered the with block and
\* took the lock, and the calls it made on file objects, in order.
Outcome(raised, ret, offset, pos, entered, locked, calls) ==
    [raised |-> raised, ret |-> ret, offset |-> offset, pos |-> pos,
     entered |-> entered, locked |-> locked, calls |-> calls]

\* The assignment seek makes to self.offset before it checks the result.
seekTarget(s, offset, whence) ==
    IF whence = SEEK_CUR THEN s.offset + offset
    ELSE IF whence = SEEK_END THEN Last(s.cumsizes) + offset
    ELSE IF whence = SEEK_SET THEN offset
    ELSE s.offset

\* Mutant: the cursor is clamped to the end of the file.
seek_Clamped(s, pos, offset, whence) ==
    LET new == Min(seekTarget(s, offset, whence), Last(s.cumsizes))
    IN  IF new < 0
        THEN Outcome("ValueError", None, new, pos, FALSE, FALSE, <<>>)
        ELSE Outcome("", new, new, pos, FALSE, FALSE, <<>>)

seek(s, pos, offset, whence) ==
    LET new == seekTarget(s, offset, whence)
    IN  IF new < 0
        THEN Outcome("ValueError", None, new, pos, FALSE, FALSE, <<>>)
        ELSE Outcome("", new, new, pos, FALSE, FALSE, <<>>)

tell(s, pos) == Outcome("", s.offset, s.offset, pos, FALSE, FALSE, <<>>)

\* Mutant: close rewinds the file.
close_Rewinds(s, pos) == Outcome("", None, 0, pos, FALSE, FALSE, <<>>)

close(s, pos) == Outcome("", None, s.offset, pos, FALSE, FALSE, <<>>)

\* Mutant: the rest of the current stencil does not limit the request.
readableSize_Unclamped(s, i, size) == size

\* readableSize = min(size, self.sizes[i] - (self.offset - self.cumsizes[i]))
readableSize(s, i, size) == Min(size, s.sizes[i + 1] - (s.offset - s.cumsizes[i + 1]))

\* Mutant: the offset inside the stencil is forgotten.
seekPosition_StencilStart(s, i) == s.offsets[i + 1]

\* The position read seeks the file object of stencil i to.
seekPosition(s, i) == s.offsets[i + 1] + (s.offset - s.cumsizes[i + 1])

\* Mutant: the closed check is missing.
isClosed_Never(closed, f) == FALSE

\* if self.fileObjects[i].closed
isClosed(closed, f) == closed[f]

\* Mutant: the file object is read where it stands, without the seek.
positionAfterSeek_NoSeek(pos, f, target) == pos[f]

\* self.fileObjects[i].seek(offset, io.SEEK_SET): the position the file object is
\* read at.
positionAfterSeek(pos, f, target) == target

\* read(size).  rejectNegative: whether the file object's read raises for a negative
\* size other than -1 (io.BufferedReader does; io.BytesIO and io.FileIO read to the end).
read(s, pos, closed, size0, rejectNegative) ==
    LET size == IF size0 = -1 THEN Last(s.cumsizes) - s.offset ELSE size0
    IN  IF ~(s.offset >= 0)
        THEN Outcome("AssertionError", <<>>, s.offset, pos, FALSE, FALSE, <<>>)
        ELSE
        LET i == findStencil(s.cumsizes, s.offset)
        IN  IF ~(i >= 0)
            THEN Outcome("AssertionError", <<>>, s.offset, pos, FALSE, FALSE, <<>>)
            ELSE IF i >= Len(s.sizes)
            THEN Outcome("", <<>>, s.offset, pos, FALSE, FALSE, <<>>)
            ELSE
            LET f      == s.fileObjects[i + 1]
                inside == s.offset - s.cumsizes[i + 1]
                target == seekPosition(s, i)
                n      == readableSize(s, i, size)
                at     == positionAfterSeek(pos, f, target)
                tmp    == SrcRead(f, at, n)
                qry    == <<[f |-> f, op |-> "closed", arg |-> 0]>>
                sk     == <<[f |-> f, op |-> "seek", arg |-> target]>>
                rd     == <<[f |-> f, op |-> "read", arg |-> n]>>
            IN  IF isClosed(closed, f)
                THEN Outcome("ValueError", <<>>, s.offset, pos, TRUE, s.fileobjLock, qry)
                ELSE IF ~(inside >= 0) \/ ~(inside < s.sizes[i + 1])
                THEN Outcome("AssertionError", <<>>, s.offset, pos, TRUE, s.fileobjLock, qry)
                ELSE IF n < 0 /\ rejectNegative
                THEN Outcome("ValueError", <<>>, s.offset, [pos EXCEPT ![f] = at],
                             TRUE, s.fileobjLock, qry \o sk \o rd)
                ELSE Outcome("", tmp, s.offset + Len(tmp),
                             [pos EXCEPT ![f] = at + Len(tmp)],
                             TRUE, s.fileobjLock, qry \o sk \o rd)

----------------------------------------------------------------------------
\* The raw file used by one caller: construction, then any calls.

Range(lo, hi) == lo..hi

\* The (offset, size) pairs supplied: first and last offset; empty, one-byte
\* and longest stencil.
StencilPairs == {0, MaxOff} \X {0, 1, MaxLen}

\* The (file object, offset, size) triples supplied; file object 2 is empty and
\* file object 1 ends before offset MaxOff + MaxLen.
StencilTriples ==
    {<<1, 0, MaxLen>>, <<1, MaxOff, MaxLen>>, <<2, 0, 1>>, <<3, 1, 0>>, <<3, MaxOff, MaxLen>>}

RECURSIVE ListsOf(_, _)
ListsOf(S, n) ==
    IF n = 0 THEN {<<>>}
    ELSE LET shorter == ListsOf(S, n - 1)
         IN  shorter \cup {Append(l, e) : l \in {m \in shorter : Len(m) = n - 1}, e \in S}

\* RawStenciledFile(fileobj, stencils, fileobjLock) and
\* RawStenciledFile(fileStencils=..., fileobjLock=...)
RawArgs ==
    [kind : {"stencils"}, fileobj : {None, 1},
     stencils : ListsOf(StencilPairs, MaxStencils), fileStencils : {<<>>},
     fileobjLock : {FALSE}]
    \cup
    [kind : {"fileStencils"}, fileobj : {None}, stencils : {<<>>},
     fileStencils : ListsOf(StencilTriples, MaxStencils), fileobjLock : {TRUE}]

NoCall == [op |-> "none", arg |-> 0, whence |-> 0, raised |-> "", ret |-> None,
           entered |-> FALSE, locked |-> FALSE, calls |-> <<>>]

Called(op, arg, whence, o) ==
    [op |-> op, arg |-> arg, whence |-> whence, raised |-> o.raised,
     ret |-> o.ret, entered |-> o.entered, locked |-> o.locked, calls |-> o.calls]

EmptyBuffer == [data |-> <<>>, pos |-> 0]

Threads == {1, 2}
NoThread == 0

NoLocal == [offset |-> 0, size |-> 0, i |-> 0, readableSize |-> 0, tmp |-> <<>>,
            raised |-> "", done |-> FALSE]

\* openMountSource has not been called.
NoMount == [pc |-> "none", size |-> 0, pos |-> 0, fileno |-> FALSE, modules |-> {},
            started |-> <<>>, result |-> ""]

NewSelf == [EmptySelf EXCEPT !.offset = 0] @@ [fileobjLock |-> FALSE]

InitCommon ==
    /\ phase = "new"
    /\ self = NewSelf
    /\ srcPos = [f \in Sources |-> 0]
    /\ srcClosed = [f \in Sources |-> FALSE]
    /\ srcReadable = [f \in Sources |-> TRUE]
    /\ last = NoCall
    /\ out = <<>>
    /\ buffer = EmptyBuffer
    /\ views = [t \in Threads |-> NewSelf]
    /\ pc = [t \in Threads |-> "idle"]
    /\ lock = NoThread
    /\ local = [t \in Threads |-> NoLocal]
    /\ mount = NoMount

Init ==
    /\ args \in RawArgs
    /\ InitCommon

\* RawStenciledFile.__init__
Construct ==
    /\ phase = "new"
    /\ args.kind \in {"stencils", "fileStencils"}
    /\ LET r == RawInit(args.fileobj, args.stencils, args.fileStencils, srcReadable)
       IN  /\ phase' = IF r.raised = "" THEN "open" ELSE "failed"
           /\ self' = r.self @@ [fileobjLock |-> args.fileobjLock]
           /\ last' = [NoCall EXCEPT !.op = "init", !.raised = r.raised, !.calls = r.calls]
    /\ UNCHANGED <<args, srcPos, srcClosed, srcReadable, out, buffer, threadVars, mount>>

Total == Last(self.cumsizes)

\* Applies the outcome of a call to the state.
Apply(op, arg, whence, o) ==
    /\ self' = [self EXCEPT !.offset = o.offset]
    /\ srcPos' = o.pos
    /\ last' = Called(op, arg, whence, o)
    /\ UNCHANGED <<args, phase, srcClosed, srcReadable, out, buffer, threadVars, mount>>

Seek(offset, whence) ==
    /\ phase = "open"
    /\ LET o == seek(self, srcPos, offset, whence)
       IN  /\ o.offset >= -MaxSeek
           /\ o.offset <= Total + MaxSeek
           /\ Apply("seek", offset, whence, o)

Tell ==
    /\ phase = "open"
    /\ Apply("tell", 0, 0, tell(self, srcPos))

Close ==
    /\ phase = "open"
    /\ Apply("close", 0, 0, close(self, srcPos))

Read(size, rejectNegative) ==
    /\ phase = "open"
    /\ Apply("read", size, 0, read(self, srcPos, srcClosed, size, rejectNegative))

\* seek(offset, whence) as callers issue it: any absolute offset up to MaxSeek
\* before the start and behind the end, and short relative moves.
SeekArgs ==
    {<<offset, SEEK_SET>> : offset \in Range(-MaxSeek, Total + MaxSeek)}
    \cup {<<offset, SEEK_CUR>> : offset \in {-1, 1}}
    \cup {<<offset, SEEK_END>> : offset \in {-1, 0, 1}}
    \cup {<<1, SEEK_END + 1>>}
ReadSizes == Range(-2, MaxRead)

Next ==
    \/ Construct
    \/ \E a \in SeekArgs : Seek(a[1], a[2])
    \/ Tell
    \/ Close
    \/ \E size \in ReadSizes, rejectNegative \in BOOLEAN : Read(size, rejectNegative)

Spec == Init /\ [][Next]_vars

----------------------------------------------------------------------------
\* A caller that reads the raw file from the start until read returns nothing:
\*     while True: data = file.read(size); if not data: break; out += data

LoopEnded == last.op = "read" /\ last.raised = "" /\ last.ret = <<>>

LoopRead(size) ==
    /\ phase = "open"
    /\ ~LoopEnded
    /\ LET o == read(self, srcPos, srcClosed, size, FALSE)
       IN  /\ self' = [self EXCEPT !.offset = o.offset]
           /\ srcPos' = o.pos
           /\ last' = Called("read", size, 0, o)
           /\ out' = IF o.raised = "" THEN out \o o.ret ELSE out
    /\ UNCHANGED <<args, phase, srcClosed, srcReadable, buffer, threadVars, mount>>

NextLoop ==
    \/ Construct
    \/ \E size \in Range(1, MaxRead) : LoopRead(size)

SpecLoop == Init /\ [][NextLoop]_vars

----------------------------------------------------------------------------
\* A caller of the raw file while the owner of the file objects closes them.

\* fileObject.close(), called by the owner of file object f.
CloseSource(f) ==
    /\ phase = "open"
    /\ ~srcClosed[f]
    /\ srcClosed' = [srcClosed EXCEPT ![f] = TRUE]
    /\ last' = [NoCall EXCEPT !.op = "closeSource", !.arg = f]
    /\ UNCHANGED <<args, phase, self, srcPos, srcReadable, out, buffer, threadVars, mount>>

InitClosing == Init /\ args.kind = "fileStencils"

NextClosing ==
    \/ Construct
    \/ \E offset \in Range(0, Total) : Seek(offset, SEEK_SET)
    \/ \E size \in {-1, 1, MaxRead} : Read(size, FALSE)
    \/ \E f \in Sources : CloseSource(f)

SpecClosing == InitClosing /\ [][NextClosing]_vars

----------------------------------------------------------------------------
\* Construction alone, from any arguments: offsets and sizes that may be
\* negative, file objects that may not be readable.

AnyPairs == {-1, 0, MaxOff} \X {-1, 0, MaxLen}
AnyTriples == {1, 2} \X {-1, 0, MaxOff} \X {-1, 0, MaxLen}

AnyArgs ==
    [kind : {"stencils"}, fileobj : {None, 1, 2},
     stencils : ListsOf(AnyPairs, MaxStencils), fileStencils : {<<>>},
     fileobjLock : {FALSE}]
    \cup
    [kind : {"fileStencils"}, fileobj : {None}, stencils : {<<>>},
     fileStencils : ListsOf(AnyTriples, MaxStencils), fileobjLock : {TRUE}]

InitAny ==
    /\ args \in AnyArgs
    /\ phase = "new"
    /\ self = NewSelf
    /\ srcPos = [f \in Sources |-> 0]
    /\ srcClosed = [f \in Sources |-> FALSE]
    /\ srcReadable \in {r \in [Sources -> BOOLEAN] : r[3]}
    /\ last = NoCall
    /\ out = <<>>
    /\ buffer = EmptyBuffer
    /\ views = [t \in Threads |-> NewSelf]
    /\ pc = [t \in Threads |-> "idle"]
    /\ lock = NoThread
    /\ local = [t \in Threads |-> NoLocal]
    /\ mount = NoMount

NextInit == Construct

SpecInit == InitAny /\ [][NextInit]_vars

----------------------------------------------------------------------------
\* StenciledFile and JoinedFile: io.BufferedReader around a RawStenciledFile.

\* Mutant: offset and size of the stencil of a joined file are swapped.
joinedFileStencils_Swapped(file_objects) ==
    [j \in 1..Len(file_objects) |-> <<file_objects[j], SrcSeekEnd(file_objects[j]), 0>>]

\* sizes = [fobj.seek(0, io.SEEK_END) for fobj in file_objects]
\* fileStencils = [(fobj, 0, size if size else 0) for fobj, size in zip(file_objects, sizes)]
\* (every file object here answers seek with its size, never with None)
joinedFileStencils(file_objects) ==
    [j \in 1..Len(file_objects) |->
        <<file_objects[j], 0,
          IF SrcSeekEnd(file_objects[j]) # 0 THEN SrcSeekEnd(file_objects[j]) ELSE 0>>]

\* The file positions after the size queries of JoinedFile.__init__.
joinedPositions(file_objects, pos) ==
    [f \in Sources |-> IF \E j \in 1..Len(file_objects) : file_objects[j] = f
                       THEN SrcSeekEnd(f) ELSE pos[f]]

\* Mutant: the size of the caller's buffer is not passed on to read.
readinto_Unbounded(s, pos, closed, n) == read(s, pos, closed, -1, FALSE)

\* RawStenciledFile.readinto(buffer) for a buffer of n bytes: read(len(byteView)).
readinto(s, pos, closed, n) == read(s, pos, closed, n, FALSE)

\* The state a buffered read works on and what it has collected so far.
Reading(s, pos, data, bpos, res, raised) ==
    [self |-> s, pos |-> pos, data |-> data, bpos |-> bpos, res |-> res, raised |-> raised]

\* Second loop of the buffered read: refill the buffer with one raw read for the
\* free part of it and hand out what is still wanted, until enough was handed
\* out, the buffer is full, or a raw read returns nothing.
RECURSIVE fillAndCopy(_, _, _, _)
fillAndCopy(st, closed, remaining, buffer_size) ==
    IF remaining > 0 /\ Len(st.data) < buffer_size
    THEN LET o == readinto(st.self, st.pos, closed, buffer_size - Len(st.data))
         IN  IF o.raised # ""
             THEN [st EXCEPT !.raised = o.raised, !.self.offset = o.offset, !.pos = o.pos]
             ELSE IF o.ret = <<>> THEN [st EXCEPT !.self.offset = o.offset, !.pos = o.pos]
             ELSE LET take == Min(remaining, Len(o.ret))
                  IN  fillAndCopy(Reading([st.self EXCEPT !.offset = o.offset], o.pos,
                                          st.data \o o.ret, st.bpos + take,
                                          st.res \o SubSeq(o.ret, 1, take), ""),
                                  closed, remaining - take, buffer_size)
    ELSE st

\* First loop of the buffered read: raw reads of whole multiples of the buffer
\* size straight into the result.
RECURSIVE readBlocks(_, _, _, _)
readBlocks(st, closed, remaining, buffer_size) ==
    LET r == remaining - (remaining % buffer_size)
    IN  IF remaining > 0 /\ r > 0
        THEN LET o == readinto(st.self, st.pos, closed, r)
             IN  IF o.raised # ""
                 THEN [st EXCEPT !.raised = o.raised, !.self.offset = o.offset, !.pos = o.pos]
                 ELSE IF o.ret = <<>> THEN [st EXCEPT !.self.offset = o.offset, !.pos = o.pos]
                 ELSE readBlocks(Reading([st.self EXCEPT !.offset = o.offset], o.pos,
                                         <<>>, 0, st.res \o o.ret, ""),
                                 closed, remaining - Len(o.ret), buffer_size)
        ELSE fillAndCopy(st, closed, remaining, buffer_size)

\* io.BufferedReader.read(n), n >= 0, on the raw file s with read-ahead b in a
\* buffer of buffer_size bytes.
bufferedRead(s, pos, closed, b, n, buffer_size) ==
    LET avail == Len(b.data) - b.pos
    IN  IF n <= avail
        THEN Reading(s, pos, b.data, b.pos + n, SubSeq(b.data, b.pos + 1, b.pos + n), "")
        ELSE readBlocks(Reading(s, pos, <<>>, 0, SubSeq(b.data, b.pos + 1, Len(b.data)), ""),
                        closed, n - avail, buffer_size)

\* The position of the buffered file: the raw cursor less the unread read-ahead.
bufferedTell(s, b) == s.offset - (Len(b.data) - b.pos)

\* io.BufferedReader.seek(target, io.SEEK_SET), target >= 0: inside the
\* read-ahead only the buffer position moves, otherwise the raw file seeks and
\* the read-ahead is dropped.
bufferedSeek(s, pos, b, target) ==
    LET avail == Len(b.data) - b.pos
        delta == target - bufferedTell(s, b)
    IN  IF avail > 0 /\ delta >= -b.pos /\ delta <= avail
        THEN Reading(s, pos, b.data, b.pos + delta, target, "")
        ELSE LET o == seek(s, pos, target, SEEK_SET)
             IN  Reading([s EXCEPT !.offset = o.offset], o.pos, <<>>, 0, o.ret, o.raised)

\* io.DEFAULT_BUFFER_SIZE
DEFAULT_BUFFER_SIZE == 8192

\* JoinedFile(file_objects, file_lock, buffer_size): a small buffer or the default.
JoinedArgs ==
    [kind : {"joined"}, fileobj : {None}, stencils : {<<>>},
     fileStencils : ListsOf(Sources, MaxFiles), fileobjLock : {TRUE},
     buffer_size : {BufferSize, DEFAULT_BUFFER_SIZE}]

\* The size of the buffer of the io.BufferedReader: the buffer_size given to
\* JoinedFile; StenciledFile passes none and gets the default.
bufferSizeOf(a) == IF a.kind = "joined" THEN a.buffer_size ELSE DEFAULT_BUFFER_SIZE

\* StenciledFile(fileobj, stencils, fileobjLock, fileStencils) or JoinedFile(file_objects, file_lock)
InitBuffered ==
    /\ args \in RawArgs \cup JoinedArgs
    /\ InitCommon

\* StenciledFile.__init__ and JoinedFile.__init__ (args.fileStencils holds
\* file_objects for a joined file).
ConstructBuffered ==
    /\ phase = "new"
    /\ LET joined == args.kind = "joined"
           r == IF joined
                THEN RawInit(None, <<>>, joinedFileStencils(args.fileStencils), srcReadable)
                ELSE RawInit(args.fileobj, args.stencils, args.fileStencils, srcReadable)
       IN  /\ phase' = IF r.raised = "" THEN "open" ELSE "failed"
           /\ self' = r.self @@ [fileobjLock |-> args.fileobjLock]
           /\ srcPos' = IF joined THEN joinedPositions(args.fileStencils, srcPos) ELSE srcPos
           /\ last' = [NoCall EXCEPT !.op = "init", !.raised = r.raised]
    /\ UNCHANGED <<args, srcClosed, srcReadable, out, buffer, threadVars, mount>>

ApplyBuffered(op, arg, st) ==
    /\ self' = st.self
    /\ srcPos' = st.pos
    /\ buffer' = [data |-> st.data, pos |-> st.bpos]
    /\ last' = [NoCall EXCEPT !.op = op, !.arg = arg, !.raised = st.raised, !.ret = st.res]
    /\ UNCHANGED <<args, phase, srcClosed, srcReadable, out, threadVars, mount>>

BufferedRead(n) ==
    /\ phase = "open"
    /\ ApplyBuffered("bread", n,
                     bufferedRead(self, srcPos, srcClosed, buffer, n, bufferSizeOf(args)))

BufferedSeek(target) ==
    /\ phase = "open"
    /\ ApplyBuffered("bseek", target, bufferedSeek(self, srcPos, buffer, target))

NextBuffered ==
    \/ ConstructBuffered
    \/ \E n \in Range(0, MaxRead + BufferSize) \cup {DEFAULT_BUFFER_SIZE} : BufferedRead(n)
    \/ \E target \in Range(0, Total + 1) : BufferedSeek(target)

SpecBuffered == InitBuffered /\ [][NextBuffered]_vars

----------------------------------------------------------------------------
\* Two threads, each with a RawStenciledFile of its own over one shared file
\* object, built with one shared lock or with none.  A thread repeats
\* seek(offset); read(size) on its file.  The cursor and the table belong to the
\* thread; the lock and the file object (its closed flag, its position) are
\* shared, so read is cut into steps at every access of them.

SharedFile == 3

\* The stencil list of a thread's file: one stencil of the longest size.
ThreadStencils == {<<<<offset, MaxLen>>>> : offset \in {0, MaxOff}}

InitThreads ==
    /\ args \in [kind : {"threads"}, fileobj : {SharedFile}, stencils : {<<>>},
                 fileStencils : {<<>>}, fileobjLock : BOOLEAN]
    /\ phase = "open"
    /\ self = NewSelf
    /\ srcPos = [f \in Sources |-> 0]
    /\ srcClosed = [f \in Sources |-> FALSE]
    /\ srcReadable = [f \in Sources |-> TRUE]
    /\ last = NoCall
    /\ out = <<>>
    /\ buffer = EmptyBuffer
    /\ views \in [Threads -> {RawInit(args.fileobj, st, <<>>, srcReadable).self
                                 @@ [fileobjLock |-> args.fileobjLock] : st \in ThreadStencils}]
    /\ pc = [t \in Threads |-> "idle"]
    /\ lock = NoThread
    /\ local = [t \in Threads |-> NoLocal]
    /\ mount = NoMount

seqVars == <<args, phase, self, srcClosed, srcReadable, last, out, buffer, mount>>

\* Mutant: a file built without a lock uses a lock shared by all files.
hasLock_Always(s) == TRUE

\* self.fileobjLock if self.fileobjLock else _DummyContext(): whether the with
\* statement takes a lock.
hasLock(s) == s.fileobjLock

\* Mutant: the with statement does not wait for the lock.
mayEnter_NoWait(s, holder) == TRUE

\* with self.fileobjLock if self.fileobjLock else _DummyContext(): a thread
\* enters when its file has no lock or nobody holds the lock.
mayEnter(s, holder) == ~hasLock(s) \/ holder = NoThread

\* The holder of the lock after thread t has entered the with block.
lockAfterEnter(s, holder, t) == IF hasLock(s) THEN t ELSE holder

\* Mutant: the lock is released only when the block ends without an exception.
lockAfterExit_KeptOnError(s, holder, raised) ==
    IF hasLock(s) /\ raised = "" THEN NoThread ELSE holder

\* The holder of the lock after the with block was left, by its end or by an
\* exception.
lockAfterExit(s, holder, raised) == IF hasLock(s) THEN NoThread ELSE holder

\* seek(offset) and read(size) up to the with statement: the size, the lookup
\* and the early return at the end of the file.
ThreadCall(t, offset, size0) ==
    /\ pc[t] = "idle"
    /\ LET o    == seek(views[t], srcPos, offset, SEEK_SET)
           s    == [views[t] EXCEPT !.offset = o.offset]
           size == IF size0 = -1 THEN Last(s.cumsizes) - s.offset ELSE size0
           i    == findStencil(s.cumsizes, s.offset)
       IN  /\ o.raised = ""
           /\ views' = [views EXCEPT ![t] = s]
           /\ local' = [local EXCEPT ![t] = [NoLocal EXCEPT !.offset = offset, !.size = size,
                                                           !.i = i, !.done = i >= Len(s.sizes)]]
           /\ pc' = [pc EXCEPT ![t] = IF i >= Len(s.sizes) THEN "idle" ELSE "with"]
    /\ UNCHANGED <<seqVars, srcPos, lock>>

\* with ...: __enter__
ThreadEnter(t) ==
    /\ pc[t] = "with"
    /\ mayEnter(views[t], lock)
    /\ lock' = lockAfterEnter(views[t], lock, t)
    /\ pc' = [pc EXCEPT ![t] = "closed"]
    /\ UNCHANGED <<seqVars, srcPos, views, local>>

\* if self.fileObjects[i].closed: raise ValueError
ThreadCheckClosed(t) ==
    /\ pc[t] = "closed"
    /\ IF srcClosed[views[t].fileObjects[local[t].i + 1]]
       THEN /\ local' = [local EXCEPT ![t].raised = "ValueError"]
            /\ pc' = [pc EXCEPT ![t] = "exit"]
       ELSE /\ local' = local
            /\ pc' = [pc EXCEPT ![t] = "seek"]
    /\ UNCHANGED <<seqVars, srcPos, views, lock>>

\* self.fileObjects[i].seek(self.offsets[i] + offsetInsideStencil, io.SEEK_SET)
\* and the readableSize computed after it
ThreadSeek(t) ==
    /\ pc[t] = "seek"
    /\ LET s == views[t]
           i == local[t].i
       IN  /\ srcPos' = [srcPos EXCEPT ![s.fileObjects[i + 1]] = seekPosition(s, i)]
           /\ local' = [local EXCEPT ![t].readableSize = readableSize(s, i, local[t].size)]
    /\ pc' = [pc EXCEPT ![t] = "read"]
    /\ UNCHANGED <<seqVars, views, lock>>

\* tmp = self.fileObjects[i].read(readableSize); self.offset += len(tmp)
\* The file object reads at the position it is at when the call is made.
ThreadRead(t) ==
    /\ pc[t] = "read"
    /\ LET s   == views[t]
           f   == s.fileObjects[local[t].i + 1]
           tmp == SrcRead(f, srcPos[f], local[t].readableSize)
       IN  /\ srcPos' = [srcPos EXCEPT ![f] = srcPos[f] + Len(tmp)]
           /\ views' = [views EXCEPT ![t].offset = s.offset + Len(tmp)]
           /\ local' = [local EXCEPT ![t].tmp = tmp]
    /\ pc' = [pc EXCEPT ![t] = "exit"]
    /\ UNCHANGED <<seqVars, lock>>

\* with ...: __exit__, then return result (or the exception propagates)
ThreadExit(t) ==
    /\ pc[t] = "exit"
    /\ lock' = lockAfterExit(views[t], lock, local[t].raised)
    /\ local' = [local EXCEPT ![t].done = TRUE]
    /\ pc' = [pc EXCEPT ![t] = "idle"]
    /\ UNCHANGED <<seqVars, srcPos, views>>

NextThreads ==
    \E t \in Threads :
        \/ \E offset \in Range(0, Last(views[t].cumsizes)), size \in {1, MaxLen} :
              ThreadCall(t, offset, size)
        \/ ThreadEnter(t)
        \/ ThreadCheckClosed(t)
        \/ ThreadSeek(t)
        \/ ThreadRead(t)
        \/ ThreadExit(t)

SpecThreads == InitThreads /\ [][NextThreads]_vars

----------------------------------------------------------------------------
\* Threads that share the lock, over a file object whose seek or read may raise
\* and which its owner may close.

\* What seek or read of file object f may raise: OSError at any time, and once
\* its owner has closed it ValueError ("I/O operation on closed file").  read asks
\* for the closed flag only before the two calls, so a file object closed after
\* that is still called, and what it does then is its own affair: it raises, or
\* it serves the call (ThreadSeek, ThreadRead).
fileErrors(closed, f) == IF closed[f] THEN {"ValueError", "OSError"} ELSE {"OSError"}

\* self.fileObjects[i].seek(...) raises: the exception leaves the with block.
ThreadSeekFails(t) ==
    /\ pc[t] = "seek"
    /\ \E error \in fileErrors(srcClosed, views[t].fileObjects[local[t].i + 1]) :
          local' = [local EXCEPT ![t].raised = error]
    /\ pc' = [pc EXCEPT ![t] = "exit"]
    /\ UNCHANGED <<seqVars, srcPos, views, lock>>

\* self.fileObjects[i].read(readableSize) raises: the exception leaves the with
\* block.
ThreadReadFails(t) ==
    /\ pc[t] = "read"
    /\ \E error \in fileErrors(srcClosed, views[t].fileObjects[local[t].i + 1]) :
          local' = [local EXCEPT ![t].raised = error]
    /\ pc' = [pc EXCEPT ![t] = "exit"]
    /\ UNCHANGED <<seqVars, srcPos, views, lock>>

\* The steps of thread t inside the with block.
ThreadInside(t) ==
    \/ ThreadCheckClosed(t)
    \/ ThreadSeek(t)
    \/ ThreadSeekFails(t)
    \/ ThreadRead(t)
    \/ ThreadReadFails(t)
    \/ ThreadExit(t)

InitGuarded == InitThreads /\ args.fileobjLock

NextGuarded ==
    \/ \E t \in Threads :
          \/ \E offset \in Range(0, Last(views[t].cumsizes)), size \in {1, MaxLen} :
                ThreadCall(t, offset, size)
          \/ ThreadEnter(t)
          \/ ThreadInside(t)
    \/ CloseSource(SharedFile)

\* Scheduling: the interpreter runs every thread that can run, and the calls of
\* the file object return, so a thread inside the with block goes on
\* (WF on its steps), and a thread at the with statement takes a lock that
\* stays free (WF on entering).  The lock is the caller's (a threading.Lock):
\* it hands itself to any one of the threads that ask for it, so a thread that
\* finds it taken time and again is promised nothing.
SpecGuarded ==
    /\ InitGuarded
    /\ [][NextGuarded]_vars
    /\ \A t \in Threads : WF_vars(ThreadInside(t)) /\ WF_vars(ThreadEnter(t))

----------------------------------------------------------------------------
\* What the stencil table stands for, stated without the lookup of the code.

\* The triples handed to the constructor, in order, whichever way they were given.
SuppliedTriples ==
    IF args.kind = "fileStencils" THEN args.fileStencils
    ELSE [j \in 1..Len(args.stencils) |-> <<args.fileobj, args.stencils[j][1], args.stencils[j][2]>>]

HasPositiveSize(t) == t[3] > 0

RECURSIVE SumSizes(_)
SumSizes(ts) == IF ts = <<>> THEN 0 ELSE ts[1][3] + SumSizes(Tail(ts))

\* The triples the table holds.
TableTriples == [i \in 1..Len(self.sizes) |-> <<self.fileObjects[i], self.offsets[i], self.sizes[i]>>]

NumStencils == Len(self.sizes)

\* Stencil i (1-based) covers virtual offset o.
Covers(i, o) == self.cumsizes[i] <= o /\ o < self.cumsizes[i + 1]

StencilAt(o) == CHOOSE i \in 1..NumStencils : Covers(i, o)

\* Every file object holds every byte range a stencil maps.
MappedHeld ==
    \A i \in 1..NumStencils : self.offsets[i] + self.sizes[i] <= SrcSize[self.fileObjects[i]]

\* n bytes of file object f from file position p on.
SourceBytes(f, p, n) == [k \in 1..n |-> SrcData(f)[p + k]]

\* The cursor at which the last read started (a read advances by what it returns).
ReadFrom == self.offset - Len(last.ret)

----------------------------------------------------------------------------
\* C1: with file objects that hold every mapped range, seek(o, SEEK_SET) to an
\* offset o inside the file followed by read(k), k >= 1, returns the
\* min(k, size[i] - (o - cumsizes[i])) bytes of the file object of the stencil i
\* containing o that start at offsets[i] + (o - cumsizes[i]), and moves the cursor
\* forward by the number of bytes returned.
C1_SeekThenReadReturnsMappedBytes ==
    [][ ( /\ phase = "open" /\ MappedHeld
          /\ last.op = "seek" /\ last.whence = SEEK_SET /\ last.raised = ""
          /\ last.arg >= 0 /\ last.arg < Total
          /\ last'.op = "read" /\ last'.arg >= 1 )
        => LET o      == last.arg
               i      == StencilAt(o)
               inside == o - self.cumsizes[i]
               n      == Min(last'.arg, self.sizes[i] - inside)
           IN  /\ self.offset = o
               /\ last'.raised = ""
               /\ last'.ret = SourceBytes(self.fileObjects[i], self.offsets[i] + inside, n)
               /\ self'.offset = o + n
      ]_vars

\* A read that started inside the second stencil, not at its first byte, and
\* was cut short by the end of that stencil before the end of the file.
C1_Witness ==
    /\ phase = "open" /\ MappedHeld
    /\ last.op = "read" /\ last.raised = "" /\ last.arg >= 1
    /\ NumStencils >= 2
    /\ ReadFrom > self.cumsizes[2] /\ ReadFrom < self.cumsizes[3]
    /\ Len(last.ret) >= 1 /\ Len(last.ret) < last.arg

\* C4 as stated: seek sets the cursor to offset (SEEK_SET), cursor + offset
\* (SEEK_CUR) or total size + offset (SEEK_END) and returns it; when that is
\* negative the call raises and the cursor is what it was before the call.
C4_FailedSeekKeepsCursor ==
    [][ (last'.op = "seek" /\ last'.whence \in {SEEK_SET, SEEK_CUR, SEEK_END})
        => LET new == IF last'.whence = SEEK_SET THEN last'.arg
                      ELSE IF last'.whence = SEEK_CUR THEN self.offset + last'.arg
                      ELSE Total + last'.arg
           IN  IF new < 0
               THEN last'.raised # "" /\ self'.offset = self.offset
               ELSE last'.raised = "" /\ last'.ret = new /\ self'.offset = new
      ]_vars

\* C5 as stated: a read that finds a stencil i under the cursor, whatever size it
\* is given, makes one read call, on the file object of stencil i, for no more
\* than the bytes stencil i still holds, and leaves the cursor at or before the
\* end of stencil i.
C5_ReadStaysInsideStencil ==
    (phase = "open" /\ last.op = "read" /\ last.entered /\ last.raised = "")
    => LET i     == StencilAt(ReadFrom)
           reads == SelectSeq(last.calls, LAMBDA c : c.op = "read")
       IN  /\ Len(reads) = 1
           /\ reads[1].f = self.fileObjects[i]
           /\ reads[1].arg <= self.cumsizes[i + 1] - ReadFrom
           /\ self.offset <= self.cumsizes[i + 1]

\* C7: a seek whose result is at or behind the end of the file succeeds and
\* returns that result unclamped; a read with the cursor at or behind the end
\* returns nothing, keeps the cursor, does not enter the locked block and makes
\* no call on any file object.
C7_ReadAtOrPastEndIsEmpty ==
    [][ /\ (last'.op = "seek" /\ last'.whence \in {SEEK_SET, SEEK_CUR, SEEK_END})
           => LET new == IF last'.whence = SEEK_SET THEN last'.arg
                         ELSE IF last'.whence = SEEK_CUR THEN self.offset + last'.arg
                         ELSE Total + last'.arg
              IN  new >= Total
                  => last'.raised = "" /\ last'.ret = new /\ self'.offset = new
        /\ (last'.op = "read" /\ self.offset >= Total)
           => /\ last'.raised = "" /\ last'.ret = <<>>
              /\ self'.offset = self.offset
              /\ ~last'.entered /\ ~last'.locked /\ last'.calls = <<>>
              /\ srcPos' = srcPos
      ]_vars

\* read(1) returned nothing with the cursor behind the end of a file that is not
\* empty and is built with a lock.
C7_Witness ==
    /\ phase = "open" /\ self.fileobjLock /\ Total > 0
    /\ last.op = "read" /\ last.arg = 1 /\ last.ret = <<>> /\ last.raised = ""
    /\ self.offset > Total

\* C9: for every offset o inside the file the lookup returns the one index i with
\* cumsizes[i] <= o < cumsizes[i+1]; for o = total size (also of the empty
\* table) it returns the number of stencils, at which read returns nothing.
C9_LookupFindsTheCoveringStencil ==
    phase = "open" =>
        /\ \A o \in 0..(Total - 1) :
              LET i == findStencil(self.cumsizes, o)
              IN  /\ i >= 0 /\ i < NumStencils
                  /\ Covers(i + 1, o)
                  /\ \A j \in 1..NumStencils : Covers(j, o) => j = i + 1
        /\ findStencil(self.cumsizes, Total) = NumStencils
        /\ LET r == read([self EXCEPT !.offset = Total], srcPos, srcClosed, 1, FALSE)
           IN  r.raised = "" /\ r.ret = <<>> /\ ~r.entered

\* A read served from the second of at least two stencils.
C9_Witness ==
    /\ phase = "open" /\ NumStencils >= 2
    /\ last.op = "read" /\ last.entered /\ Len(last.ret) >= 1
    /\ ReadFrom >= self.cumsizes[2] /\ ReadFrom < self.cumsizes[3]

\* The table is well formed with respect to the triples supplied.
TableWellFormed ==
    /\ TableTriples = SelectSeq(SuppliedTriples, HasPositiveSize)
    /\ \A i \in 1..NumStencils : self.sizes[i] > 0
    /\ Len(self.offsets) = NumStencils /\ Len(self.fileObjects) = NumStencils
    /\ Len(self.cumsizes) = NumStencils + 1
    /\ self.cumsizes[1] = 0
    /\ \A i \in 1..NumStencils : self.cumsizes[i + 1] = self.cumsizes[i] + self.sizes[i]
    /\ \A i \in 1..NumStencils : self.cumsizes[i] < self.cumsizes[i + 1]
    /\ Total = SumSizes(SelectSeq(SuppliedTriples, HasPositiveSize))

\* C10: after construction the table holds exactly the supplied stencils of
\* size > 0 in their order, cumsizes starts at 0 and adds one size per entry
\* (so it increases strictly), the total size is the sum of the positive sizes
\* supplied, and no later seek, read, tell or close changes the table.
C10_TableWellFormedAndImmutable ==
    /\ [](phase = "open" => TableWellFormed)
    /\ [][phase = "open" =>
            /\ self'.offsets = self.offsets /\ self'.sizes = self.sizes
            /\ self'.fileObjects = self.fileObjects /\ self'.cumsizes = self.cumsizes]_vars

\* A table that dropped a supplied stencil of size 0, kept another, and was read from.
C10_Witness ==
    /\ phase = "open"
    /\ NumStencils >= 1 /\ NumStencils < Len(SuppliedTriples)
    /\ last.op = "read" /\ Len(last.ret) >= 1

----------------------------------------------------------------------------
\* source[offset : offset + size] of file object f (a slice ends with the file).
Slice(f, offset, size) ==
    IF offset >= SrcSize[f] THEN <<>>
    ELSE SubSeq(SrcData(f), offset + 1, Min(offset + size, SrcSize[f]))

RECURSIVE ConcatSlices(_)
ConcatSlices(ts) ==
    IF ts = <<>> THEN <<>>
    ELSE Slice(ts[1][1], ts[1][2], ts[1][3]) \o ConcatSlices(Tail(ts))

\* C2 as stated: reading from cursor 0 with read(k), k >= 1, until read returns
\* nothing collects the concatenation of source[offset : offset + size] over the
\* stencils in list order and ends with the cursor at the total size.
C2_LoopReadsConcatenation ==
    (phase = "open" /\ LoopEnded)
    => out = ConcatSlices(TableTriples) /\ self.offset = Total

\* C2, amended: the same, for tables whose file objects hold every mapped range.
C2_LoopReadsConcatenationOfHeldRanges ==
    (phase = "open" /\ LoopEnded /\ MappedHeld)
    => out = ConcatSlices(TableTriples) /\ self.offset = Total

\* The loop ended over two stencils that map the same range of one file object.
C2_Witness ==
    /\ phase = "open" /\ LoopEnded /\ MappedHeld
    /\ NumStencils = 2
    /\ TableTriples[1] = TableTriples[2]
    /\ self.sizes[1] >= 2
    /\ Len(out) = Total

----------------------------------------------------------------------------
Max(a, b) == IF a >= b THEN a ELSE b

\* The byte of the virtual file at offset o < total size.
VirtualByte(o) ==
    LET i == StencilAt(o)
    IN  SrcData(self.fileObjects[i])[self.offsets[i] + (o - self.cumsizes[i]) + 1]

\* The position at which the last buffered read started.
BufferedReadFrom == bufferedTell(self, buffer) - Len(last.ret)

\* What read(n) of the buffered file is to return from position p.
ExpectedCount(p, n) == Min(n, Max(0, Total - p))

\* C6 as stated: read(n), n >= 0, of the buffered file returns exactly
\* min(n, max(0, total size - position)) bytes, the content of the virtual file
\* from the position on.
C6_BufferedReadIsExact ==
    (phase = "open" /\ last.op = "bread")
    => /\ last.raised = ""
       /\ Len(last.ret) = ExpectedCount(BufferedReadFrom, last.arg)
       /\ \A k \in 1..Len(last.ret) : last.ret[k] = VirtualByte(BufferedReadFrom + k - 1)

\* C6, amended: the same, for files whose file objects hold every mapped range.
C6_BufferedReadIsExactOverHeldRanges ==
    (phase = "open" /\ last.op = "bread" /\ MappedHeld)
    => /\ last.raised = ""
       /\ Len(last.ret) = ExpectedCount(BufferedReadFrom, last.arg)
       /\ \A k \in 1..Len(last.ret) : last.ret[k] = VirtualByte(BufferedReadFrom + k - 1)

\* A buffered read that started inside the first stencil, asked for more than
\* the buffer holds and for more than was left, and returned bytes of two stencils.
C6_Witness ==
    /\ phase = "open" /\ last.op = "bread" /\ MappedHeld
    /\ NumStencils >= 2
    /\ BufferedReadFrom > 0 /\ BufferedReadFrom < self.cumsizes[2]
    /\ last.arg > bufferSizeOf(args) /\ last.arg > Len(last.ret)
    /\ bufferedTell(self, buffer) = Total

\* Byte o of the file objects laid end to end.
RECURSIVE ByteOfJoined(_, _)
ByteOfJoined(files, o) ==
    IF o < SrcSize[files[1]] THEN SrcData(files[1])[o + 1]
    ELSE ByteOfJoined(Tail(files), o - SrcSize[files[1]])

RECURSIVE JoinedSize(_)
JoinedSize(files) == IF files = <<>> THEN 0 ELSE SrcSize[files[1]] + JoinedSize(Tail(files))

IsNotEmptyFile(f) == SrcSize[f] > 0

\* C8: a joined file has one stencil (file object, 0, size) per file object that
\* is not empty, in list order; its total size is the sum of the sizes; its byte
\* at offset o is byte o - (sizes of the earlier file objects) of the file
\* object o falls into.
C8_JoinedFileConcatenatesFiles ==
    (phase = "open" /\ args.kind = "joined")
    => LET files == args.fileStencils
           kept  == SelectSeq(files, IsNotEmptyFile)
       IN  /\ TableTriples = [j \in 1..Len(kept) |-> <<kept[j], 0, SrcSize[kept[j]]>>]
           /\ Total = JoinedSize(files)
           /\ \A o \in 0..(Total - 1) :
                 LET r == read([self EXCEPT !.offset = o], srcPos, srcClosed, 1, FALSE)
                 IN  r.raised = "" /\ r.ret = <<ByteOfJoined(files, o)>>

\* Three files joined, the middle one empty, and one buffered read that returned
\* the last byte of the first file followed by the first byte of the third.
C8_Witness ==
    /\ phase = "open" /\ args.kind = "joined"
    /\ Len(args.fileStencils) = 3
    /\ SrcSize[args.fileStencils[1]] > 0
    /\ SrcSize[args.fileStencils[2]] = 0
    /\ SrcSize[args.fileStencils[3]] > 0
    /\ NumStencils = 2
    /\ last.op = "bread" /\ Len(last.ret) >= 2
    /\ BufferedReadFrom < self.cumsizes[2]
    /\ bufferedTell(self, buffer) > self.cumsizes[2]

----------------------------------------------------------------------------
InCriticalSection(t) == pc[t] \in {"closed", "seek", "read", "exit"}

\* The bytes the file of thread t maps at virtual offset o, at most size of
\* them, up to the end of the stencil that covers o.
MappedBytes(t, o, size) ==
    LET s      == views[t]
        i      == CHOOSE j \in 1..Len(s.sizes) : s.cumsizes[j] <= o /\ o < s.cumsizes[j + 1]
        inside == o - s.cumsizes[i]
    IN  Slice(s.fileObjects[i], s.offsets[i] + inside, Min(size, s.sizes[i] - inside))

\* C3: with two files over one file object built with one lock, read concurrently
\* by two threads: while a thread is between entering and leaving the with
\* block it holds the lock and the other thread is outside of it; between its
\* seek and its read of the file object the position it set is still in place;
\* and what its read returns are the bytes mapped at its own offset.
C3_LockedReadsNeverMix ==
    args.fileobjLock =>
        \A t \in Threads :
            /\ InCriticalSection(t)
               => lock = t /\ \A u \in Threads \ {t} : ~InCriticalSection(u)
            /\ pc[t] = "read"
               => srcPos[views[t].fileObjects[local[t].i + 1]] = seekPosition(views[t], local[t].i)
            /\ (pc[t] = "exit" /\ local[t].raised = "")
               => local[t].tmp = MappedBytes(t, local[t].offset, local[t].size)

\* Thread 1 has read its bytes and still holds the lock while thread 2, whose
\* file maps another range of the shared file object and whose cursor is at
\* another offset, waits to enter.
C3_Witness ==
    /\ args.fileobjLock
    /\ pc[1] = "exit" /\ local[1].tmp # <<>> /\ local[1].offset > 0
    /\ pc[2] = "with" /\ local[2].tmp = <<>>
    /\ views[1].offsets # views[2].offsets
    /\ views[2].offset > 0

----------------------------------------------------------------------------
\* openMountSource(fileOrPath) called with a file object of MaxFileSize bytes at
\* most.  What a backend does with the file object is not in this module: a
\* probe may leave the file object at any position and may return a mount
\* source, decline or raise.

MaxFileSize == 3

Modules == {"libarchive", "rarfile", "zipfile"}

\* The file position after fileOrPath.read(n) from position pos.
positionAfterRead(size, pos, n) == Min(pos + n, size)

MountArgs == [kind |-> "mount", fileobj |-> None, stencils |-> <<>>, fileStencils |-> <<>>,
              fileobjLock |-> FALSE]

InitMount ==
    /\ args = MountArgs
    /\ phase = "new"
    /\ self = NewSelf
    /\ srcPos = [f \in Sources |-> 0]
    /\ srcClosed = [f \in Sources |-> FALSE]
    /\ srcReadable = [f \in Sources |-> TRUE]
    /\ last = NoCall
    /\ out = <<>>
    /\ buffer = EmptyBuffer
    /\ views = [t \in Threads |-> NewSelf]
    /\ pc = [t \in Threads |-> "idle"]
    /\ lock = NoThread
    /\ local = [t \in Threads |-> NoLocal]
    /\ mount \in [pc : {"debug"}, size : Range(0, MaxFileSize), pos : {0}, fileno : BOOLEAN,
                   modules : SUBSET Modules, started : {<<>>}, result : {""}]

fileVars == <<args, phase, self, srcPos, srcClosed, srcReadable, last, out, buffer, threadVars>>

\* A probe of a backend begins with the file object at its current position.
Started(backend) == Append(mount.started, [backend |-> backend, at |-> mount.pos])

\* Where openMountSource goes after a probe: out with the mount source, or on.
AfterProbe(backend, outcome, next) ==
    [pc |-> IF outcome = "mount" THEN "done" ELSE next,
     result |-> IF outcome = "mount" THEN backend ELSE ""]

\* print(fileOrPath.read(2)); fileOrPath.seek(0, io.SEEK_SET); print(fileOrPath.read(2))
DebugReads ==
    /\ mount.pc = "debug"
    /\ mount' = [mount EXCEPT !.pc = "libarchive",
                              !.pos = positionAfterRead(mount.size, 0, 2)]
    /\ UNCHANGED fileVars

\* "libarchive" not in sys.modules, or fileOrPath.fileno() raises
\* io.UnsupportedOperation: the block and its seek(0) are skipped.
SkipLibarchive ==
    /\ mount.pc = "libarchive"
    /\ ~("libarchive" \in mount.modules /\ mount.fileno)
    /\ mount' = [mount EXCEPT !.pc = "rar"]
    /\ UNCHANGED fileVars

\* libarchive.is_archive(fileOrPath), LibarchiveMountSource(fileOrPath);
\* finally: fileOrPath.seek(0)
ProbeLibarchive(outcome) ==
    /\ mount.pc = "libarchive"
    /\ "libarchive" \in mount.modules /\ mount.fileno
    /\ LET a == AfterProbe("libarchive", outcome, "rar")
       IN  mount' = [mount EXCEPT !.pc = a.pc, !.result = a.result, !.pos = 0,
                                  !.started = Started("libarchive")]
    /\ UNCHANGED fileVars

\* 'rarfile' not in sys.modules: no probe; finally: fileOrPath.seek(0)
SkipRar ==
    /\ mount.pc = "rar"
    /\ "rarfile" \notin mount.modules
    /\ mount' = [mount EXCEPT !.pc = "tar", !.pos = 0]
    /\ UNCHANGED fileVars

\* rarfile.is_rarfile(fileOrPath), RarMountSource(fileOrPath); finally: fileOrPath.seek(0)
ProbeRar(outcome) ==
    /\ mount.pc = "rar"
    /\ "rarfile" \in mount.modules
    /\ LET a == AfterProbe("rar", outcome, "tar")
       IN  mount' = [mount EXCEPT !.pc = a.pc, !.result = a.result, !.pos = 0,
                                  !.started = Started("rar")]
    /\ UNCHANGED fileVars

\* SQLiteIndexedTar(fileObject=fileOrPath) returns or raises; finally: fileOrPath.seek(0)
ProbeTar(outcome) ==
    /\ mount.pc = "tar"
    /\ outcome # "declined"
    /\ LET a == AfterProbe("tar", outcome, "zip")
       IN  mount' = [mount EXCEPT !.pc = a.pc, !.result = a.result, !.pos = 0,
                                  !.started = Started("tar")]
    /\ UNCHANGED fileVars

\* 'zipfile' not in sys.modules: the block and its seek(0) are skipped.
SkipZip ==
    /\ mount.pc = "zip"
    /\ "zipfile" \notin mount.modules
    /\ mount' = [mount EXCEPT !.pc = "end"]
    /\ UNCHANGED fileVars

\* fileOrPath.read(2) == b'PK' and zipfile.is_zipfile(fileOrPath),
\* ZipMountSource(fileOrPath); finally: fileOrPath.seek(0)
ProbeZip(outcome) ==
    /\ mount.pc = "zip"
    /\ "zipfile" \in mount.modules
    /\ LET a == AfterProbe("zip", outcome, "end")
       IN  mount' = [mount EXCEPT !.pc = a.pc, !.result = a.result, !.pos = 0,
                                  !.started = Started("zip")]
    /\ UNCHANGED fileVars

\* joinedFileName is empty for a file object:
\* raise CompressionError("Archive to open (...) has unrecognized format!")
RaiseUnrecognized ==
    /\ mount.pc = "end"
    /\ mount' = [mount EXCEPT !.pc = "done", !.result = "CompressionError"]
    /\ UNCHANGED fileVars

ProbeOutcomes == {"mount", "declined", "raised"}

NextMount ==
    \/ DebugReads
    \/ SkipLibarchive
    \/ \E outcome \in ProbeOutcomes : ProbeLibarchive(outcome)
    \/ SkipRar
    \/ \E outcome \in ProbeOutcomes : ProbeRar(outcome)
    \/ \E outcome \in ProbeOutcomes : ProbeTar(outcome)
    \/ SkipZip
    \/ \E outcome \in ProbeOutcomes : ProbeZip(outcome)
    \/ RaiseUnrecognized

SpecMount == InitMount /\ [][NextMount]_vars

----------------------------------------------------------------------------
\* The supplied list names a file object whose readable() returns False.
SuppliesUnreadable ==
    \E j \in 1..Len(SuppliedTriples) :
        SuppliedTriples[j][1] \in Sources /\ ~srcReadable[SuppliedTriples[j][1]]

\* The supplied list holds a negative offset or a negative size.
SuppliesNegative ==
    \E j \in 1..Len(SuppliedTriples) : SuppliedTriples[j][2] < 0 \/ SuppliedTriples[j][3] < 0

\* C11 as stated: construction fails with the not-readable error whenever a file
\* object of any supplied stencil, also one of size 0, is not readable.
C11_UnreadableSourceAlwaysRejected ==
    (phase # "new" /\ ~SuppliesNegative /\ SuppliesUnreadable)
    => phase = "failed" /\ last.raised = "ValueError"

\* C12: construction from a list that holds a negative offset or size, in the
\* (fileobj, stencils) form or in the fileStencils form, raises, makes no call on
\* any file object, moves no file position and builds no table.
C12_NegativeStencilRejectedBeforeIO ==
    (phase # "new" /\ SuppliesNegative)
    => /\ phase = "failed" /\ last.raised # ""
       /\ last.calls = <<>>
       /\ srcPos = [f \in Sources |-> 0]
       /\ TableTriples = <<>> /\ self.cumsizes = <<0>>

\* Construction failed on its assertion for a list whose first stencil, of
\* positive size, names a file object that is not readable and whose second
\* stencil has a negative offset.
C12_Witness ==
    /\ phase = "failed" /\ last.raised = "AssertionError"
    /\ Len(SuppliedTriples) = 2
    /\ SuppliedTriples[1][3] > 0 /\ SuppliedTriples[1][2] >= 0
    /\ ~srcReadable[SuppliedTriples[1][1]]
    /\ SuppliedTriples[2][2] < 0 /\ SuppliedTriples[2][3] >= 0

----------------------------------------------------------------------------
\* The file object of the stencil that covers the cursor.
TargetFile == self.fileObjects[StencilAt(self.offset)]

\* C13: a read with the cursor inside the table whose stencil's file object is
\* closed raises ValueError, asks that file object only for its closed flag,
\* moves no file position and leaves the cursor; when that file object is open
\* the read succeeds, whatever other file objects of the table are closed.
C13_ReadOfClosedSourceFails ==
    [][(last'.op = "read" /\ phase = "open" /\ self.offset >= 0 /\ self.offset < Total)
       => IF srcClosed[TargetFile]
          THEN /\ last'.raised = "ValueError"
               /\ last'.calls = <<[f |-> TargetFile, op |-> "closed", arg |-> 0]>>
               /\ srcPos' = srcPos
               /\ self' = self
          ELSE /\ last'.raised = ""
               /\ self'.offset = self.offset + Len(last'.ret)
               /\ \A k \in 1..Len(last'.calls) : last'.calls[k].f = TargetFile]_vars

\* A read failed on the closed file object of the second stencil after the
\* bytes of the first stencil, whose file object is open, had been read.
C13_Witness ==
    /\ phase = "open" /\ NumStencils = 2
    /\ last.op = "read" /\ last.raised = "ValueError"
    /\ self.offset = self.cumsizes[2]
    /\ srcClosed[self.fileObjects[2]] /\ ~srcClosed[self.fileObjects[1]]
    /\ srcPos[self.fileObjects[1]] > 0

----------------------------------------------------------------------------
\* C14: close() raises nothing, calls no file object, and leaves the cursor, the
\* table, the file positions and the closed flags as they are; every seek, read
\* and tell gives after it the outcome it would have given before it.
C14_CloseChangesNothing ==
    [][(last'.op = "close")
       => /\ last'.raised = "" /\ last'.calls = <<>>
          /\ self' = self /\ srcPos' = srcPos /\ srcClosed' = srcClosed
          /\ tell(self', srcPos') = tell(self, srcPos)
          /\ \A a \in SeekArgs :
                seek(self', srcPos', a[1], a[2]) = seek(self, srcPos, a[1], a[2])
          /\ \A size \in ReadSizes, rejectNegative \in BOOLEAN :
                read(self', srcPos', srcClosed', size, rejectNegative)
                    = read(self, srcPos, srcClosed, size, rejectNegative)]_vars

\* close() was called with the cursor inside the table, after a read had moved
\* a file object.
C14_Witness ==
    /\ phase = "open" /\ last.op = "close"
    /\ self.offset > 0 /\ self.offset < Total
    /\ \E f \in Sources : srcPos[f] > 0

\* C15 as stated: whatever calls were made, failed ones included, the cursor is
\* not negative and no assertion of _findStencil or read has failed.
C15_CursorNeverNegative ==
    phase = "open" => (self.offset >= 0 /\ last.raised # "AssertionError")

\* C17: over file objects that hold their stencils, a read of at least one byte
\* or of everything (-1) that starts inside the table returns at least one byte;
\* such a read returns nothing only with the cursor at or behind the end.
C17_EmptyReadOnlyAtEnd ==
    (phase = "open" /\ last.op = "read" /\ (last.arg >= 1 \/ last.arg = -1) /\ MappedHeld)
    => /\ (ReadFrom >= 0 /\ ReadFrom < Total)
            => (last.raised = "" /\ Len(last.ret) >= 1)
       /\ (last.raised = "" /\ last.ret = <<>>) => self.offset >= Total

\* Of a supplied list with an empty stencil, a read of everything that started
\* at the last byte of the table returned that byte.
C17_Witness ==
    /\ phase = "open" /\ MappedHeld
    /\ NumStencils >= 1 /\ NumStencils < Len(SuppliedTriples)
    /\ last.op = "read" /\ last.arg = -1 /\ last.raised = ""
    /\ Len(last.ret) = 1 /\ ReadFrom = Total - 1 /\ ReadFrom >= 1

----------------------------------------------------------------------------
\* The file object stands where the seek of thread t's read put it.
PositionInPlace(t) == srcPos[SharedFile] = seekPosition(views[t], local[t].i)

\* C16: files built without a lock take no lock and never wait at the with
\* statement; and a read of the file object that is served after another
\* thread's seek has moved it, which happens only between such files, returns
\* bytes that are not those mapped at the reader's own offset, while a read
\* served where its own seek put the file object returns exactly those.
C16_UnlockedReadsInterleave ==
    /\ [](~args.fileobjLock
          => /\ lock = NoThread
             /\ \A t \in Threads : pc[t] = "with" => ENABLED ThreadEnter(t))
    /\ [][\A t \in Threads :
            (pc[t] = "read" /\ pc'[t] = "exit" /\ local'[t].raised = "")
            => IF PositionInPlace(t)
               THEN local'[t].tmp = MappedBytes(t, local[t].offset, local[t].size)
               ELSE /\ ~args.fileobjLock
                    /\ local'[t].tmp # MappedBytes(t, local[t].offset, local[t].size)]_vars

\* Without a lock, a thread has read bytes that are not those its own offset
\* maps, while the other thread is between its seek and its read.
C16_Witness ==
    /\ ~args.fileobjLock
    /\ \E t \in Threads, u \in Threads :
          /\ t # u
          /\ pc[t] = "exit" /\ local[t].raised = "" /\ local[t].tmp # <<>>
          /\ local[t].tmp # MappedBytes(t, local[t].offset, local[t].size)
          /\ pc[u] = "read"

\* C18 as stated: the lock is held only by a thread inside its with block, so
\* a read that has ended, with bytes or with an exception, has released it; a
\* held lock is released; and every thread waiting at the with statement enters.
C18_GuardAlwaysReleased ==
    /\ [](\A t \in Threads : lock = t => InCriticalSection(t))
    /\ \A t \in Threads : (lock = t) ~> (lock = NoThread)
    /\ \A t \in Threads : (pc[t] = "with") ~> (pc[t] = "closed")

\* C18, amended: the same, but of the threads waiting at the with statement it
\* is some thread that enters, not every one: while a thread waits, the lock is
\* free for it or its holder is inside the with block and can go on, and
\* whenever a thread waits, a thread enters.
C18_GuardReleasedSomeWaiterEnters ==
    /\ [](\A t \in Threads : lock = t => InCriticalSection(t))
    /\ [](\A t \in Threads :
            pc[t] = "with"
            => \/ ENABLED ThreadEnter(t)
               \/ \E u \in Threads \ {t} : lock = u /\ ENABLED ThreadInside(u))
    /\ \A t \in Threads : (lock = t) ~> (lock = NoThread)
    /\ (\E t \in Threads : pc[t] = "with") ~> (\E u \in Threads : pc[u] = "closed")

\* A read that failed on the closed file object has ended and the lock is free
\* while the other thread waits at the with statement.
C18_Witness ==
    /\ args.fileobjLock /\ srcClosed[SharedFile]
    /\ lock = NoThread
    /\ \E t \in Threads, u \in Threads :
          /\ t # u
          /\ pc[t] = "idle" /\ local[t].raised = "ValueError" /\ local[t].done
          /\ pc[u] = "with"

----------------------------------------------------------------------------
\* What read(n) returns from position p of a buffered file over the same table
\* that has just been opened: no read-ahead, no file object moved yet.
FreshRead(p, n) ==
    bufferedRead([self EXCEPT !.offset = p], [f \in Sources |-> 0], srcClosed,
                 EmptyBuffer, n, bufferSizeOf(args)).res

\* C19: whatever reads and seeks of a StenciledFile or JoinedFile came before,
\* read(n) from a position returns what it returns from that position of a
\* file just opened; so read(k); seek(0); read(k) returns the same bytes twice.
C19_ReadDependsOnlyOnPosition ==
    (phase = "open" /\ last.op = "bread")
    => /\ last.raised = ""
       /\ last.ret = FreshRead(BufferedReadFrom, last.arg)

\* A read from position 0 that returned bytes of the first stencil only, made
\* after an earlier read had moved the file object of the second stencil.
C19_Witness ==
    /\ phase = "open" /\ args.kind = "fileStencils" /\ NumStencils = 2
    /\ self.fileObjects[1] # self.fileObjects[2]
    /\ last.op = "bread" /\ BufferedReadFrom = 0
    /\ Len(last.ret) >= 1 /\ Len(last.ret) < self.cumsizes[2]
    /\ srcPos[self.fileObjects[2]] > 0

----------------------------------------------------------------------------
\* The backends in the order of openMountSource.
ProbeOrder == <<"libarchive", "rar", "tar", "zip">>

ProbeRank(backend) == CHOOSE k \in 1..Len(ProbeOrder) : ProbeOrder[k] = backend

\* C20 as stated: the probes begun follow the order libarchive, RAR, indexed
\* TAR, ZIP, and every probe begins with the file object at position 0.
C20_EveryProbeStartsAtZero ==
    /\ \A j \in 1..Len(mount.started), k \in 1..Len(mount.started) :
          j < k => ProbeRank(mount.started[j].backend) < ProbeRank(mount.started[k].backend)
    /\ \A k \in 1..Len(mount.started) : mount.started[k].at = 0

====
